---- MODULE Spec2Model ----
(***************************************************************************)
(* Model of clippy_lints/src/map_err_ignore.rs: the late lint pass         *)
(* MapErrIgnore.  The host (rustc's late lint driver) hands every HIR      *)
(* expression node to check_expr; check_expr may emit one diagnostic       *)
(* through span_lint_and_help.                                             *)
(*                                                                         *)
(* HIR values are records.  Sequences are 1-based, so the source's         *)
(* args[0] (receiver) is args[1] here and the source's args[1] is args[2]. *)
(***************************************************************************)
EXTENDS Integers, Sequences, FiniteSets, Bags, TLC

\* ---- bounds of the explored input space ----
MaxParams == 2      \* closure parameter lists of length 0..MaxParams
MaxExtraArgs == 1   \* explicit arguments after the first one
NumDefIds == 2      \* distinct DefIds a path can resolve to
MaxCalls == 2       \* length of a chain r.m(..).m(..) handed to the traversal

DefIds == 1..NumDefIds

\* ---- spans ----
\* A span names the piece of source it covers: the node it belongs to and
\* which part of that node, plus whether it comes from a macro expansion or
\* desugaring (what Span::from_expansion reads).
MkSpan(node, part, expn) == [node |-> node, part |-> part, expn |-> expn]

from_expansion(span) == span.expn

\* ---- resolutions (rustc_hir::def::Res) ----
ResDef(def_kind, def_id) == [tag |-> "Def", def_kind |-> def_kind, def_id |-> def_id]

Ctor(of, ctor_kind) == [tag |-> "Ctor", of |-> of, ctor_kind |-> ctor_kind]

PlainKind(name) == [tag |-> name, of |-> "-", ctor_kind |-> "-"]

ResLocal == [tag |-> "Local", def_kind |-> PlainKind("-"), def_id |-> 0]

\* What a path without a self type can resolve to.
ResolvedNoneRes ==
    { ResDef(k, d) : k \in { Ctor("Variant", "Const"), Ctor("Variant", "Fn"),
                             Ctor("Struct", "Const"), Ctor("Struct", "Fn"),
                             PlainKind("Fn"), PlainKind("Const") },
                     d \in DefIds }
    \cup { ResLocal }

\* What a fully qualified path <T as Trait>::item resolves to.
ResolvedSomeRes == { ResDef(PlainKind(k), d) : k \in {"AssocFn", "AssocConst"}, d \in DefIds }

\* What a type-relative path (Self::V, Alias::V, <T>::V) resolves to once
\* type checking has run.
TypeRelativeRes ==
    { ResDef(k, d) : k \in { Ctor("Variant", "Const"), Ctor("Variant", "Fn"),
                             PlainKind("AssocFn"), PlainKind("AssocConst") },
                     d \in DefIds }

\* ---- expression kinds (rustc_hir::ExprKind) ----
\* QPath::Resolved(qself, path) carries path.res; QPath::TypeRelative(ty, seg)
\* carries no resolution of its own, the field res records the one the type
\* checker computed for it.
QResolved(qself, res) == [form |-> "Resolved", qself |-> qself, res |-> res]

QTypeRelative(res) == [form |-> "TypeRelative", qself |-> "Some", res |-> res]

QPaths ==
    { QResolved("None", r) : r \in ResolvedNoneRes }
    \cup { QResolved("Some", r) : r \in ResolvedSomeRes }
    \cup { QTypeRelative(r) : r \in TypeRelativeRes }

KPath(qpath) == [tag |-> "Path", qpath |-> qpath]

KLit == [tag |-> "Lit"]

KBlock == [tag |-> "Block"]

\* Error::Wrapped(x): a call whose callee is a path to a tuple-variant constructor.
KCall(callee) == [tag |-> "Call", callee |-> callee]

\* ExprKind::Closure(capture_clause, fn_decl, body_id, fn_decl_span, movability):
\* the Span field is the span of the argument block |...|.  The body the
\* BodyId stands for (cx.tcx.hir().body(body_id)) is kept in the field body.
KClosure(capture, body, fn_decl_span) ==
    [tag |-> "Closure", capture |-> capture, body |-> body, fn_decl_span |-> fn_decl_span]

KMethodCall(method, args) == [tag |-> "MethodCall", method |-> method, args |-> args]

\* An expression node; ty is the type the type checker assigned to it.
MkExpr(span, kind, ty) == [span |-> span, kind |-> kind, ty |-> ty]

\* A closure body: parameter patterns (PatKind) and the value expression.
MkBody(params, value) == [params |-> params, value |-> value]

PatKinds == {"Wild", "Binding"}

CaptureBys == {"Ref", "Value"}

MethodNames == {"map_err", "map"}

ReceiverTys == {"Result", "Other"}

\* ---- the input space of one invocation ----
ValueKinds ==
    { KPath(q) : q \in QPaths }
    \cup { KCall(QResolved("None", ResDef(Ctor("Variant", "Fn"), d))) : d \in DefIds }
    \cup { KLit, KBlock }

ParamLists == UNION { [1..n -> PatKinds] : n \in 0..MaxParams }

Closures(n) ==
    { MkExpr(MkSpan(n, "closure", FALSE),
             KClosure(c, MkBody(ps, MkExpr(MkSpan(n, "body_value", FALSE), v, "-")),
                      MkSpan(n, "fn_decl", FALSE)),
             "-") :
        c \in CaptureBys, ps \in ParamLists, v \in ValueKinds }

\* x.map_err(Error::Wrapped) and x.map_err(0): arguments that are no closure.
NonClosureArgs(n) ==
    { MkExpr(MkSpan(n, "arg", FALSE), k, "-") :
        k \in { KPath(QResolved("None", ResDef(Ctor("Variant", "Fn"), 1))),
                KPath(QResolved("None", ResDef(Ctor("Variant", "Const"), 1))),
                KLit } }

FirstArgs(n) == Closures(n) \cup NonClosureArgs(n)

ExtraArg(n, j) == MkExpr(MkSpan(n, <<"extra", j>>, FALSE), KLit, "-")

LeafReceivers(n) ==
    { MkExpr(MkSpan(n, "receiver", FALSE), KPath(QResolved("None", ResLocal)), t) :
        t \in ReceiverTys }

ArgLists(n) ==
    { <<r>> : r \in LeafReceivers(n) }
    \cup { <<r, a>> \o [j \in 1..k |-> ExtraArg(n, j)] :
             r \in LeafReceivers(n), a \in FirstArgs(n), k \in 0..MaxExtraArgs }

MethodCalls(n) ==
    { MkExpr(MkSpan(n, "call", x), KMethodCall(m, as), "-") :
        x \in BOOLEAN, m \in MethodNames, as \in ArgLists(n) }

\* Nodes that are no method call but are handed to check_expr all the same.
OtherNodes(n) ==
    { MkExpr(MkSpan(n, "closure", x), c.kind, "-") : x \in BOOLEAN, c \in Closures(n) }
    \cup { MkExpr(MkSpan(n, "expr", x), v, "-") : x \in BOOLEAN, v \in ValueKinds }

Exprs == MethodCalls(1) \cup OtherNodes(1)

NoExpr == MkExpr(MkSpan(0, "none", FALSE), [tag |-> "None"], "-")

\* ---- the lint ----
MAP_ERR_IGNORE == "MAP_ERR_IGNORE"

\* The two message literals of check_expr; the backquotes of the primary
\* message are written as apostrophes.
PRIMARY_MSG == "'map_err(|_|...' ignores the original error"

HELP_MSG == "Consider wrapping the error in an enum variant"

\* declare_lint_pass!(MapErrIgnore => [MAP_ERR_IGNORE]): a unit struct, so the
\* pass has a single value and no field to write.
MapErrIgnore == [lints |-> <<MAP_ERR_IGNORE>>]

\* utils::span_lint_and_help(cx, lint, span, msg, help_span, help): hands one
\* diagnostic with one help note and no suggestion to the reporting channel.
span_lint_and_help(lint, span, msg, help_span, help) ==
    << [lint |-> lint, span |-> span, msg |-> msg,
        help_span |-> help_span, help |-> help, suggestions |-> <<>>] >>

is_unit_enum_variant(input) ==
    IF input.tag = "Path"
    THEN LET qpath == input.qpath IN
         IF qpath.form = "Resolved" /\ qpath.qself = "None"
         THEN LET res == qpath.res IN
              IF /\ res.tag = "Def"
                 /\ res.def_kind.tag = "Ctor"
                 /\ res.def_kind.of = "Variant"
                 /\ res.def_kind.ctor_kind = "Const"
              THEN TRUE
              ELSE FALSE
         ELSE FALSE
    ELSE FALSE

\* ---- state ----
VARIABLES
    pass,       \* the MapErrIgnore value the host keeps between invocations
    e,          \* the node of the latest invocation of check_expr
    emitted,    \* the diagnostics that invocation emitted, in order
    reports,    \* reports[r]: bag of the diagnostics the channel received in run r
    tree,       \* the expression tree the host traverses
    visited,    \* spans of the nodes handed to check_expr in the current run
    run,        \* which traversal of the tree is under way
    input,      \* the expression kind given to is_unit_enum_variant
    verdict     \* what is_unit_enum_variant returned for it

vars == <<pass, e, emitted, reports, tree, visited, run, input, verdict>>

\* ---- variants of check_expr with one guard changed ----
Report(span) == span_lint_and_help(MAP_ERR_IGNORE, span, PRIMARY_MSG, "None", HELP_MSG)

\* the from_expansion early return is missing
check_expr_ignores_expansion(n) ==
    IF /\ n.kind.tag = "MethodCall"
       /\ n.kind.method = "map_err" /\ Len(n.kind.args) = 2
       /\ n.kind.args[2].kind.tag = "Closure"
       /\ n.kind.args[2].kind.capture = "Ref"
       /\ Len(n.kind.args[2].kind.body.params) = 1
       /\ n.kind.args[2].kind.body.params[1] = "Wild"
       /\ is_unit_enum_variant(n.kind.args[2].kind.body.value.kind)
    THEN Report(n.kind.args[2].kind.fn_decl_span)
    ELSE <<>>

\* the capture mode is not compared with CaptureBy::Ref
check_expr_any_capture(n) ==
    IF /\ ~from_expansion(n.span)
       /\ n.kind.tag = "MethodCall"
       /\ n.kind.method = "map_err" /\ Len(n.kind.args) = 2
       /\ n.kind.args[2].kind.tag = "Closure"
       /\ Len(n.kind.args[2].kind.body.params) = 1
       /\ n.kind.args[2].kind.body.params[1] = "Wild"
       /\ is_unit_enum_variant(n.kind.args[2].kind.body.value.kind)
    THEN Report(n.kind.args[2].kind.fn_decl_span)
    ELSE <<>>

\* args.len() >= 2 instead of args.len() == 2
check_expr_min_args(n) ==
    IF /\ ~from_expansion(n.span)
       /\ n.kind.tag = "MethodCall"
       /\ n.kind.method = "map_err" /\ Len(n.kind.args) >= 2
       /\ n.kind.args[2].kind.tag = "Closure"
       /\ n.kind.args[2].kind.capture = "Ref"
       /\ Len(n.kind.args[2].kind.body.params) = 1
       /\ n.kind.args[2].kind.body.params[1] = "Wild"
       /\ is_unit_enum_variant(n.kind.args[2].kind.body.value.kind)
    THEN Report(n.kind.args[2].kind.fn_decl_span)
    ELSE <<>>

\* the pattern of the single parameter is not compared with PatKind::Wild
check_expr_any_pattern(n) ==
    IF /\ ~from_expansion(n.span)
       /\ n.kind.tag = "MethodCall"
       /\ n.kind.method = "map_err" /\ Len(n.kind.args) = 2
       /\ n.kind.args[2].kind.tag = "Closure"
       /\ n.kind.args[2].kind.capture = "Ref"
       /\ Len(n.kind.args[2].kind.body.params) = 1
       /\ is_unit_enum_variant(n.kind.args[2].kind.body.value.kind)
    THEN Report(n.kind.args[2].kind.fn_decl_span)
    ELSE <<>>

\* the method name is not compared with "map_err"
check_expr_any_method(n) ==
    IF /\ ~from_expansion(n.span)
       /\ n.kind.tag = "MethodCall"
       /\ Len(n.kind.args) = 2
       /\ n.kind.args[2].kind.tag = "Closure"
       /\ n.kind.args[2].kind.capture = "Ref"
       /\ Len(n.kind.args[2].kind.body.params) = 1
       /\ n.kind.args[2].kind.body.params[1] = "Wild"
       /\ is_unit_enum_variant(n.kind.args[2].kind.body.value.kind)
    THEN Report(n.kind.args[2].kind.fn_decl_span)
    ELSE <<>>

\* the receiver's type is required to be Result
check_expr_result_receiver(n) ==
    IF /\ ~from_expansion(n.span)
       /\ n.kind.tag = "MethodCall"
       /\ n.kind.method = "map_err" /\ Len(n.kind.args) = 2
       /\ n.kind.args[1].ty = "Result"
       /\ n.kind.args[2].kind.tag = "Closure"
       /\ n.kind.args[2].kind.capture = "Ref"
       /\ Len(n.kind.args[2].kind.body.params) = 1
       /\ n.kind.args[2].kind.body.params[1] = "Wild"
       /\ is_unit_enum_variant(n.kind.args[2].kind.body.value.kind)
    THEN Report(n.kind.args[2].kind.fn_decl_span)
    ELSE <<>>

\* a span reported in an earlier run is remembered and not reported again
check_expr_cached(n) ==
    IF /\ ~from_expansion(n.span)
       /\ n.kind.tag = "MethodCall"
       /\ n.kind.method = "map_err" /\ Len(n.kind.args) = 2
       /\ n.kind.args[2].kind.tag = "Closure"
       /\ n.kind.args[2].kind.capture = "Ref"
       /\ Len(n.kind.args[2].kind.body.params) = 1
       /\ n.kind.args[2].kind.body.params[1] = "Wild"
       /\ is_unit_enum_variant(n.kind.args[2].kind.body.value.kind)
       /\ ~(run = 2 /\ \E d \in BagToSet(reports[1]) : d.span = n.kind.args[2].kind.fn_decl_span)
    THEN Report(n.kind.args[2].kind.fn_decl_span)
    ELSE <<>>

\* The sequence of diagnostics one invocation of check_expr emits.
check_expr(n) ==
    IF from_expansion(n.span)
    THEN <<>>
    ELSE
    \* ExprKind::MethodCall(method, _t_span, args, _)
    IF n.kind.tag = "MethodCall"
    THEN LET method == n.kind.method
             args == n.kind.args IN
         IF method = "map_err" /\ Len(args) = 2
         \* ExprKind::Closure(capture, _, body_id, body_span, _): body_span binds
         \* the fourth field, the Span of the closure's argument block.
         THEN IF args[2].kind.tag = "Closure"
              THEN LET capture == args[2].kind.capture
                       closure_body == args[2].kind.body
                       body_span == args[2].kind.fn_decl_span IN
                   IF capture = "Ref"
                   THEN IF Len(closure_body.params) = 1
                        THEN IF closure_body.params[1] = "Wild"
                             THEN IF is_unit_enum_variant(closure_body.value.kind)
                                  THEN span_lint_and_help(
                                           MAP_ERR_IGNORE,
                                           body_span,
                                           PRIMARY_MSG,
                                           "None",
                                           HELP_MSG)
                                  ELSE <<>>
                             ELSE <<>>
                        ELSE <<>>
                   ELSE <<>>
              ELSE <<>>
         ELSE <<>>
    ELSE <<>>

\* ---- the trees the traversal specification walks ----
\* The calls a tree is built from: a full match, the same with a type-relative
\* path as body, the same inside an expansion, the same on another method.
Shapes == {"match", "type_relative", "expansion", "other_method"}

UnitVariant(d) == KPath(QResolved("None", ResDef(Ctor("Variant", "Const"), d)))

ShapeClosure(i, capture, params, value) ==
    MkExpr(MkSpan(i, "closure", FALSE),
           KClosure(capture, MkBody(params, MkExpr(MkSpan(i, "body_value", FALSE), value, "-")),
                    MkSpan(i, "fn_decl", FALSE)),
           "-")

ShapeArg(i, shape) ==
    IF shape = "type_relative"
    THEN ShapeClosure(i, "Ref", <<"Wild">>,
                      KPath(QTypeRelative(ResDef(Ctor("Variant", "Const"), 1))))
    ELSE ShapeClosure(i, "Ref", <<"Wild">>, UnitVariant(1))

\* The i-th call of a chain: receiver.method(arg).
ShapeCall(i, shape, receiver) ==
    MkExpr(MkSpan(i, "call", shape = "expansion"),
           KMethodCall(IF shape = "other_method" THEN "map" ELSE "map_err",
                       <<receiver, ShapeArg(i, shape)>>),
           "Result")

RECURSIVE Chain(_, _)
Chain(shapes, i) ==
    IF i = 0
    THEN MkExpr(MkSpan(0, "receiver", FALSE), KPath(QResolved("None", ResLocal)), "Result")
    ELSE ShapeCall(i, shapes[i], Chain(shapes, i - 1))

Trees == UNION { { Chain(s, k) : s \in [1..k -> Shapes] } : k \in 1..MaxCalls }

\* Every expression node of a tree: what the host's traversal hands to check_expr.
RECURSIVE SubExprs(_)
SubExprs(n) ==
    {n} \cup
    CASE n.kind.tag = "MethodCall" ->
            UNION { SubExprs(n.kind.args[i]) : i \in 1..Len(n.kind.args) }
      [] n.kind.tag = "Closure" -> SubExprs(n.kind.body.value)
      [] OTHER -> {}

\* Every expression kind is_unit_enum_variant can be given.
ExprKinds == { n.kind : n \in Exprs }

NoInput == [tag |-> "None"]

SeqToBag(s) == [d \in { s[i] : i \in 1..Len(s) } |-> Cardinality({ i \in 1..Len(s) : s[i] = d })]

\* LateLintPass::check_expr(&mut self, cx, e) as one step: the node is
\* borrowed immutably, self is not assigned, the only effect is the emission.
Handle(n) ==
    /\ e' = n
    /\ emitted' = check_expr(n)
    /\ reports' = [reports EXCEPT ![run] = @ (+) SeqToBag(check_expr(n))]
    /\ pass' = pass

InitCommon ==
    /\ pass = MapErrIgnore
    /\ e = NoExpr
    /\ emitted = <<>>
    /\ reports = <<EmptyBag, EmptyBag>>
    /\ visited = {}
    /\ run = 1
    /\ input = NoInput
    /\ verdict = FALSE

\* -- one invocation on an arbitrary node --
Init == InitCommon /\ tree = NoExpr

Invoke(n) ==
    /\ e = NoExpr
    /\ Handle(n)
    /\ UNCHANGED <<tree, visited, run, input, verdict>>

\* The nodes the host can hand over: any node as long as none was handed.
Pending == IF e = NoExpr THEN Exprs ELSE {}

Next == \E n \in Pending : Invoke(n)

Spec == Init /\ [][Next]_vars

\* -- the host traverses a tree, each node once, in any order, twice over --
InitTree == InitCommon /\ tree \in Trees

VisitNode(n) ==
    /\ n.span \notin visited
    /\ Handle(n)
    /\ visited' = visited \cup {n.span}
    /\ UNCHANGED <<tree, run, input, verdict>>

AllVisited == visited = { n.span : n \in SubExprs(tree) }

SecondRun ==
    /\ run = 1
    /\ AllVisited
    /\ run' = 2
    /\ visited' = {}
    /\ UNCHANGED <<pass, e, emitted, reports, tree, input, verdict>>

NextTree ==
    \/ \E n \in SubExprs(tree) : VisitNode(n)
    \/ SecondRun

SpecTree == InitTree /\ [][NextTree]_vars

\* -- is_unit_enum_variant applied to an arbitrary expression kind --
InitPredicate == InitCommon /\ tree = NoExpr

Apply(k) ==
    /\ input = NoInput
    /\ input' = k
    /\ verdict' = is_unit_enum_variant(k)
    /\ UNCHANGED <<pass, e, emitted, reports, tree, visited, run>>

PendingKinds == IF input = NoInput THEN ExprKinds ELSE {}

NextPredicate == \E k \in PendingKinds : Apply(k)

SpecPredicate == InitPredicate /\ [][NextPredicate]_vars

TypeOK ==
    /\ pass = MapErrIgnore
    /\ run \in 1..2
    /\ Len(emitted) \in 0..1
    /\ verdict \in BOOLEAN

\* ======================= properties ========================================
\* Vocabulary of the properties.
Invoked == e # NoExpr

IsMethodCall(n) == n.kind.tag = "MethodCall"

IsMapErrCall(n) == IsMethodCall(n) /\ n.kind.method = "map_err" /\ Len(n.kind.args) = 2

HasClosureArg(n) == n.kind.args[2].kind.tag = "Closure"

ClosureOf(n) == n.kind.args[2].kind

BodyOf(n) == ClosureOf(n).body

\* A path, of any form, whose resolution is the constructor of a unit variant.
UnitVariantRef(k) ==
    /\ k.tag = "Path"
    /\ k.qpath.res.tag = "Def"
    /\ k.qpath.res.def_kind = Ctor("Variant", "Const")

\* Guards 2 to 6 of check_expr.
IgnoringClosureCall(n) ==
    /\ IsMapErrCall(n)
    /\ HasClosureArg(n)
    /\ ClosureOf(n).capture = "Ref"
    /\ BodyOf(n).params = <<"Wild">>

\* Guards 2 to 7, the last one as the shape predicate computes it.
MatchesShape(n) == IgnoringClosureCall(n) /\ is_unit_enum_variant(BodyOf(n).value.kind)

FullMatch(n) == ~from_expansion(n.span) /\ MatchesShape(n)

\* C1: a map_err call outside any expansion, with one explicit argument that is
\* a by-reference closure |_| whose body is a reference to a unit variant,
\* makes check_expr emit exactly one diagnostic.
C1_ExactlyOne ==
    (/\ Invoked
     /\ ~from_expansion(e.span)
     /\ IgnoringClosureCall(e)
     /\ UnitVariantRef(BodyOf(e).value.kind))
    => Len(emitted) = 1

\* C2: is_unit_enum_variant returns true exactly for the path references, of
\* every path form, whose resolution is the constructor of a unit variant.
C2_Iff == input # NoInput => (verdict <=> UnitVariantRef(input))

\* C3: the diagnostic of a full match is addressed at the span of the closure's
\* body, carries MAP_ERR_IGNORE, the two fixed messages and no suggestion.
C3_AtBodySpan ==
    (Invoked /\ emitted # <<>>)
    => /\ Len(emitted) = 1
       /\ emitted[1].span = BodyOf(e).value.span
       /\ emitted[1].lint = MAP_ERR_IGNORE
       /\ emitted[1].msg = PRIMARY_MSG
       /\ emitted[1].help = HELP_MSG
       /\ emitted[1].suggestions = <<>>

\* C4: a node whose span comes from an expansion gets no diagnostic, whatever
\* the rest of the node looks like.
C4_NoneFromExpansion == (Invoked /\ from_expansion(e.span)) => emitted = <<>>

C4_Witness == Invoked /\ from_expansion(e.span) /\ MatchesShape(e) /\ emitted = <<>>

\* C5: a map_err call whose single explicit argument is no closure, or is a
\* move closure, gets no diagnostic.
C5_NoneUnlessRefClosure ==
    (/\ Invoked
     /\ IsMapErrCall(e)
     /\ (~HasClosureArg(e) \/ ClosureOf(e).capture = "Value"))
    => emitted = <<>>

C5_Witness ==
    /\ Invoked
    /\ ~from_expansion(e.span)
    /\ IsMapErrCall(e)
    /\ HasClosureArg(e)
    /\ ClosureOf(e).capture = "Value"
    /\ BodyOf(e).params = <<"Wild">>
    /\ is_unit_enum_variant(BodyOf(e).value.kind)
    /\ emitted = <<>>

\* C6: a node that is no method call, a method call with another name, and a
\* call with zero or with two or more explicit arguments get no diagnostic.
C6_NoneUnlessMapErrOneArg ==
    (/\ Invoked
     /\ (\/ ~IsMethodCall(e)
         \/ e.kind.method # "map_err"
         \/ Len(e.kind.args) # 2))
    => emitted = <<>>

C6_Witness ==
    /\ Invoked
    /\ ~from_expansion(e.span)
    /\ IsMethodCall(e)
    /\ e.kind.method = "map_err"
    /\ Len(e.kind.args) = 3
    /\ HasClosureArg(e)
    /\ ClosureOf(e).capture = "Ref"
    /\ BodyOf(e).params = <<"Wild">>
    /\ is_unit_enum_variant(BodyOf(e).value.kind)
    /\ emitted = <<>>

\* C7: a map_err call with a by-reference closure whose parameter list is not
\* exactly one wildcard gets no diagnostic.
C7_NoneUnlessOneWildcard ==
    (/\ Invoked
     /\ IsMapErrCall(e)
     /\ HasClosureArg(e)
     /\ ClosureOf(e).capture = "Ref"
     /\ BodyOf(e).params # <<"Wild">>)
    => emitted = <<>>

C7_Witness ==
    /\ Invoked
    /\ ~from_expansion(e.span)
    /\ IsMapErrCall(e)
    /\ HasClosureArg(e)
    /\ ClosureOf(e).capture = "Ref"
    /\ BodyOf(e).params = <<"Binding">>
    /\ is_unit_enum_variant(BodyOf(e).value.kind)
    /\ emitted = <<>>

ExpectedDiag(n) ==
    [lint |-> MAP_ERR_IGNORE, span |-> ClosureOf(n).fn_decl_span, msg |-> PRIMARY_MSG,
     help_span |-> "None", help |-> HELP_MSG, suggestions |-> <<>>]

VisitedNodes == { n \in SubExprs(tree) : n.span \in visited }

ExpectedReport(nodes) == SetToBag({ ExpectedDiag(n) : n \in { m \in nodes : FullMatch(m) } })

\* C9: whatever the order of the visits, the channel holds exactly one
\* diagnostic per fully matching node visited so far; an invocation whose
\* guards fail adds nothing, and no invocation changes the tree or the pass.
C9_OrderInsensitive ==
    /\ [](reports[run] = ExpectedReport(VisitedNodes))
    /\ [][/\ tree' = tree
          /\ pass' = pass
          /\ (visited' # visited /\ run' = run /\ ~FullMatch(e')) => reports' = reports]_vars

C9_Witness ==
    /\ run = 1
    /\ AllVisited
    /\ Cardinality({ n \in SubExprs(tree) : FullMatch(n) }) = 2
    /\ BagCardinality(reports[1]) = 2

\* Receivers that differ in expression and in type.
AltReceivers ==
    { MkExpr(MkSpan(1, "receiver", FALSE), k, t) :
        k \in { KPath(QResolved("None", ResLocal)), KLit, KBlock }, t \in ReceiverTys }

WithReceiver(n, r) == [n EXCEPT !.kind.args[1] = r]

\* C10: the emission for a method call is the same for every receiver
\* expression and receiver type put in its place; a full match on a receiver
\* that is no Result is reported.
C10_ReceiverIndependent ==
    (Invoked /\ IsMethodCall(e))
    => /\ \A r \in AltReceivers : check_expr(WithReceiver(e, r)) = emitted
       /\ (FullMatch(e) /\ e.kind.args[1].ty = "Other") => Len(emitted) = 1

C10_Witness ==
    /\ Invoked
    /\ FullMatch(e)
    /\ e.kind.args[1].ty = "Other"
    /\ Len(emitted) = 1

====
